---------------------------- MODULE Spec2Model ----------------------------
(***************************************************************************)
(* Model of totp_2fa_generator.py: generate_totp (lines 7-30) and          *)
(* generate_totp_url (lines 33-56).                                        *)
(*                                                                         *)
(* Python strings are sequences of one-character strings; bytes objects    *)
(* are sequences of integers 0..255.  The wall clock is counted in ticks   *)
(* of 1/TicksPerSecond second, so that time.time() has a fractional part.  *)
(* Two threads call generate_totp with the same arguments; every source    *)
(* line that can raise is one step of a thread.                            *)
(***************************************************************************)
EXTENDS Integers, Sequences, FiniteSets, TLC

VARIABLES
    now,          \* the wall clock, in ticks
    hmacSeed,     \* which member of the family of HMAC functions is in force
    secret,       \* argument secret (str)
    digits,       \* argument digits
    period,       \* argument period
    algorithm,    \* argument algorithm (str)
    pc,           \* per thread: position in generate_totp
    t,            \* per thread: the value time.time() returned, in ticks
    steps,        \* per thread: local steps (bytes)
    hash_digest,  \* per thread: local hash_digest (bytes)
    offset,       \* per thread: local offset
    binary,       \* per thread: local binary
    ret,          \* per thread: how the call ended
    issuer,       \* argument issuer of generate_totp_url
    user,         \* argument user of generate_totp_url
    url           \* how the last generate_totp_url call ended

vars == <<now, hmacSeed, secret, digits, period, algorithm, pc, t, steps,
          hash_digest, offset, binary, ret, issuer, user, url>>

totpArgs == <<secret, digits, period, algorithm>>
totpLocals == <<pc, t, steps, hash_digest, offset, binary, ret>>
urlVars == <<issuer, user, url>>

-----------------------------------------------------------------------------
(* Bounds *)

MaxClock == 3
TicksPerSecond == 2
NumDigestShapes == 5

Threads == {"T1", "T2"}

\* The defaults of generate_totp and generate_totp_url (lines 7 and 33).
DefaultDigits == 6
DefaultPeriod == 30

-----------------------------------------------------------------------------
(* Python values *)

\* str.encode(): the UTF-8 bytes of one character.
Utf8(c) ==
    CASE c = "a" -> <<97>>
      [] c = "b" -> <<98>>
      [] c = "c" -> <<99>>
      [] c = "d" -> <<100>>
      [] c = "e" -> <<101>>
      [] c = "f" -> <<102>>
      [] c = "!" -> <<33>>
      [] c = "#" -> <<35>>
      [] c = "1" -> <<49>>
      [] c = "U+00E9" -> <<195, 169>>

RECURSIVE Encode(_)
Encode(s) == IF s = <<>> THEN <<>> ELSE Utf8(Head(s)) \o Encode(Tail(s))

RECURSIVE SumSeq(_)
SumSeq(s) == IF s = <<>> THEN 0 ELSE Head(s) + SumSeq(Tail(s))

\* a & b, a | b on non-negative integers, bit by bit.
RECURSIVE BitAnd(_, _)
BitAnd(a, b) ==
    IF a = 0 \/ b = 0 THEN 0
    ELSE (a % 2) * (b % 2) + 2 * BitAnd(a \div 2, b \div 2)

RECURSIVE BitOr(_, _)
BitOr(a, b) ==
    IF a = 0 THEN b
    ELSE IF b = 0 THEN a
    ELSE (IF a % 2 = 1 \/ b % 2 = 1 THEN 1 ELSE 0) + 2 * BitOr(a \div 2, b \div 2)

RECURSIVE ShiftLeft(_, _)
ShiftLeft(a, n) == IF n = 0 THEN a ELSE ShiftLeft(2 * a, n - 1)

\* floor(a / b) for b # 0.
FloorDiv(a, b) == IF b > 0 THEN a \div b ELSE (0 - a) \div (0 - b)

DigitChar(d) == <<"0", "1", "2", "3", "4", "5", "6", "7", "8", "9">>[d + 1]

\* str(n) for an int n.
RECURSIVE IntToStr(_)
IntToStr(n) ==
    IF n < 0 THEN <<"-">> \o IntToStr(0 - n)
    ELSE IF n < 10 THEN <<DigitChar(n)>>
    ELSE Append(IntToStr(n \div 10), DigitChar(n % 10))

\* s.rjust(width, fill)
RECURSIVE RJust(_, _, _)
RJust(s, width, fill) ==
    IF Len(s) >= width THEN s ELSE RJust(<<fill>> \o s, width, fill)

Returned(v) == [kind |-> "return", exc |-> "", value |-> v]
Raised(e) == [kind |-> "raise", exc |-> e, value |-> <<>>]
NoOutcome == [kind |-> "none", exc |-> "", value |-> <<>>]

Unbound == 0 - 1

-----------------------------------------------------------------------------
(* The inputs *)

Secrets == { <<"a", "b">>, <<"1", "!", "#">> }
DigitsInputs == {0, DefaultDigits, 7, 10, 11}
PeriodInputs == {0 - DefaultPeriod, 0, 1, DefaultPeriod}
AlgorithmInputs == {"SHA1", "SHA256", "SHA512", "MD5", "CRC32"}

\* The algorithms the specification supports.
SupportedAlgorithms == {"SHA1", "SHA256", "SHA512"}

-----------------------------------------------------------------------------
(* generate_totp, line 20 *)

\* A slip: the clock reading used as the counter, the period forgotten.
CounterOf_NoPeriod(tk, p) == tk

\* A slip: round() where line 20 has math.floor().
CounterOf_Round(tk, p) ==
    FloorDiv(2 * tk + p * TicksPerSecond, 2 * p * TicksPerSecond)

\* math.floor(time.time() / period), time.time() being tk / TicksPerSecond.
CounterOf(tk, p) == FloorDiv(tk, p * TicksPerSecond)

RECURSIVE ShiftRightBytes(_, _)
ShiftRightBytes(n, k) == IF k = 0 THEN n ELSE ShiftRightBytes(n \div 256, k - 1)

\* int.to_bytes(length, 'big') raises OverflowError unless this holds.
FitsUnsigned(n, length) == n >= 0 /\ ShiftRightBytes(n, length) = 0

RECURSIVE ToBytes(_, _)
ToBytes(n, length) ==
    IF length = 0 THEN <<>>
    ELSE Append(ToBytes(n \div 256, length - 1), n % 256)

-----------------------------------------------------------------------------
(* generate_totp, line 21: hmac.digest *)

\* The digest names hashlib knows, among the inputs.
HashKnown(alg) == alg \in {"SHA1", "SHA256", "SHA512", "MD5"}

DigestSize(alg) ==
    CASE alg = "SHA1" -> 20
      [] alg = "SHA256" -> 32
      [] alg = "SHA512" -> 64
      [] alg = "MD5" -> 16

\* The HMAC-SHA-1 digest of RFC 4226, section 5.4.
Rfc4226Digest ==
    <<31, 134, 152, 105, 14, 2, 202, 22, 97, 133,
      80, 239, 127, 25, 218, 142, 148, 91, 85, 90>>

\* Digests of size n: what the truncation reads (the last byte and the four
\* bytes it selects) takes its extreme and its typical values.
DigestShape(k, n) ==
    CASE k = 0 -> [i \in 1..n |-> 255]
      [] k = 1 -> [i \in 1..n |-> 0]
      [] k = 2 -> [i \in 1..n |-> i - 1]
      [] k = 3 -> [i \in 1..n |-> IF i = n THEN 90
                                  ELSE Rfc4226Digest[((i - 1) % 20) + 1]]
      [] k = 4 -> [i \in 1..n |-> CASE i = 1 -> 128
                                    [] i = 2 -> 15
                                    [] i = 3 -> 66
                                    [] i = 4 -> 64
                                    [] i = n -> 240
                                    [] OTHER -> 17]
      [] OTHER -> [i \in 1..n |-> (37 * k + 11 * i) % 256]

\* hmac.digest(key, msg, alg) is a function of its arguments whose values
\* this model does not compute: hmacSeed selects one function of a family.
HmacDigest(seed, key, msg, alg) ==
    DigestShape((seed + SumSeq(key) + SumSeq(msg)) % NumDigestShapes,
                DigestSize(alg))

-----------------------------------------------------------------------------
(* generate_totp, lines 23-30 *)

\* d[i] raises IndexError unless this holds (i counts from 0, or back from
\* the end when negative).
InRange(d, i) == i < Len(d) /\ i >= 0 - Len(d)

At(d, i) == IF i >= 0 THEN d[i + 1] ELSE d[Len(d) + i + 1]

\* A slip: the mask of line 23 one bit too wide.
OffsetOf_WideMask(d) == BitAnd(At(d, 0 - 1), 31)

\* A slip: line 23 taking the high nibble of the last byte.
OffsetOf_HighNibble(d) == At(d, 0 - 1) \div 16

\* Line 23: hash_digest[-1] & 0xf
OffsetOf(d) == BitAnd(At(d, 0 - 1), 15)

\* Lines 24-29.
Truncate(d, o) ==
    BitOr(BitOr(ShiftLeft(BitAnd(At(d, o), 127), 24),
                ShiftLeft(BitAnd(At(d, o + 1), 255), 16)),
          BitOr(ShiftLeft(BitAnd(At(d, o + 2), 255), 8),
                BitAnd(At(d, o + 3), 255)))

RECURSIVE Pow10(_)
Pow10(n) == IF n = 0 THEN 1 ELSE 10 * Pow10(n - 1)

\* b % 10**d for 0 <= b < 2^31 and d >= 0.  10**d exceeds every such b from
\* d = 10 on, where the remainder is b itself.
ModPow10(b, d) == IF d >= 10 THEN b ELSE b % Pow10(d)

\* A slip: line 30 without its rjust.
FormatCode_NoPad(b, d) == IntToStr(ModPow10(b, d))

\* Line 30.
FormatCode(b, d) == RJust(IntToStr(ModPow10(b, d)), d, "0")

-----------------------------------------------------------------------------
(* The steps of a thread in generate_totp *)

Line20(th) ==
    /\ pc[th] \in {"idle", "done"}
    /\ t' = [t EXCEPT ![th] = now]
    /\ hash_digest' = [hash_digest EXCEPT ![th] = <<>>]
    /\ offset' = [offset EXCEPT ![th] = Unbound]
    /\ binary' = [binary EXCEPT ![th] = Unbound]
    /\ IF period = 0
       THEN /\ ret' = [ret EXCEPT ![th] = Raised("ZeroDivisionError")]
            /\ steps' = [steps EXCEPT ![th] = <<>>]
            /\ pc' = [pc EXCEPT ![th] = "done"]
       ELSE IF ~FitsUnsigned(CounterOf(now, period), 8)
       THEN /\ ret' = [ret EXCEPT ![th] = Raised("OverflowError")]
            /\ steps' = [steps EXCEPT ![th] = <<>>]
            /\ pc' = [pc EXCEPT ![th] = "done"]
       ELSE /\ ret' = [ret EXCEPT ![th] = NoOutcome]
            /\ steps' = [steps EXCEPT ![th] = ToBytes(CounterOf(now, period), 8)]
            /\ pc' = [pc EXCEPT ![th] = "L21"]
    /\ UNCHANGED <<now, hmacSeed, totpArgs, urlVars>>

Line21(th) ==
    /\ pc[th] = "L21"
    /\ IF ~HashKnown(algorithm)
       THEN /\ ret' = [ret EXCEPT ![th] = Raised("ValueError")]
            /\ pc' = [pc EXCEPT ![th] = "done"]
            /\ UNCHANGED hash_digest
       ELSE /\ hash_digest' = [hash_digest EXCEPT ![th] =
                   HmacDigest(hmacSeed, Encode(secret), steps[th], algorithm)]
            /\ pc' = [pc EXCEPT ![th] = "L23"]
            /\ UNCHANGED ret
    /\ UNCHANGED <<now, hmacSeed, totpArgs, urlVars, t, steps, offset, binary>>

Lines23to29(th) ==
    /\ pc[th] = "L23"
    /\ offset' = [offset EXCEPT ![th] = OffsetOf(hash_digest[th])]
    /\ IF \A i \in 0..3 : InRange(hash_digest[th], offset'[th] + i)
       THEN /\ binary' = [binary EXCEPT ![th] =
                   Truncate(hash_digest[th], offset'[th])]
            /\ pc' = [pc EXCEPT ![th] = "L30"]
            /\ UNCHANGED ret
       ELSE /\ ret' = [ret EXCEPT ![th] = Raised("IndexError")]
            /\ pc' = [pc EXCEPT ![th] = "done"]
            /\ UNCHANGED binary
    /\ UNCHANGED <<now, hmacSeed, totpArgs, urlVars, t, steps, hash_digest>>

Line30(th) ==
    /\ pc[th] = "L30"
    /\ ret' = [ret EXCEPT ![th] = Returned(FormatCode(binary[th], digits))]
    /\ pc' = [pc EXCEPT ![th] = "done"]
    /\ UNCHANGED <<now, hmacSeed, totpArgs, urlVars, t, steps, hash_digest,
                   offset, binary>>

\* The wall clock advances.
Tick ==
    /\ now < MaxClock
    /\ now' = now + 1
    /\ UNCHANGED <<hmacSeed, totpArgs, totpLocals, urlVars>>

Init ==
    /\ now = 0
    /\ hmacSeed \in 0..(NumDigestShapes - 1)
    /\ secret \in Secrets
    /\ digits \in DigitsInputs
    /\ period \in PeriodInputs
    /\ algorithm \in AlgorithmInputs
    /\ pc = [th \in Threads |-> "idle"]
    /\ t = [th \in Threads |-> 0]
    /\ steps = [th \in Threads |-> <<>>]
    /\ hash_digest = [th \in Threads |-> <<>>]
    /\ offset = [th \in Threads |-> Unbound]
    /\ binary = [th \in Threads |-> Unbound]
    /\ ret = [th \in Threads |-> NoOutcome]
    /\ issuer = <<>>
    /\ user = <<>>
    /\ url = NoOutcome

Next ==
    \/ Tick
    \/ \E th \in Threads : Line20(th)
    \/ \E th \in Threads : Line21(th)
    \/ \E th \in Threads : Lines23to29(th)
    \/ \E th \in Threads : Line30(th)

Spec == Init /\ [][Next]_vars

-----------------------------------------------------------------------------
(* generate_totp_url, lines 48-56 *)

\* The eight bits of a byte, the high one first.
ByteBits(b) == [i \in 1..8 |-> (b \div ShiftLeft(1, 8 - i)) % 2]

RECURSIVE BitsOf(_)
BitsOf(bytes) ==
    IF bytes = <<>> THEN <<>> ELSE ByteBits(Head(bytes)) \o BitsOf(Tail(bytes))

\* The number a sequence of bits denotes, the high one first.
RECURSIVE BitsValue(_)
BitsValue(bits) ==
    IF bits = <<>> THEN 0
    ELSE 2 * BitsValue(SubSeq(bits, 1, Len(bits) - 1)) + bits[Len(bits)]

\* The alphabet of RFC 4648, section 6.
Base32Alphabet ==
    <<"A", "B", "C", "D", "E", "F", "G", "H", "I", "J", "K", "L", "M",
      "N", "O", "P", "Q", "R", "S", "T", "U", "V", "W", "X", "Y", "Z",
      "2", "3", "4", "5", "6", "7">>

RECURSIVE Repeat(_, _)
Repeat(c, n) == IF n <= 0 THEN <<>> ELSE <<c>> \o Repeat(c, n - 1)

\* The characters of the quanta: five bits each, the last ones filled with
\* zero bits.
RECURSIVE Base32Chars(_)
Base32Chars(bits) ==
    IF bits = <<>> THEN <<>>
    ELSE IF Len(bits) < 5
    THEN <<Base32Alphabet[BitsValue(bits \o Repeat(0, 5 - Len(bits))) + 1]>>
    ELSE <<Base32Alphabet[BitsValue(SubSeq(bits, 1, 5)) + 1]>>
             \o Base32Chars(SubSeq(bits, 6, Len(bits)))

\* base64.b32encode(bytes).decode(): the characters, then "=" up to a
\* multiple of eight.
B32Encode(bytes) ==
    LET chars == Base32Chars(BitsOf(bytes))
    IN  chars \o Repeat("=", (8 - (Len(chars) % 8)) % 8)

\* s.rstrip(c)
RECURSIVE RStrip(_, _)
RStrip(s, c) ==
    IF s # <<>> /\ s[Len(s)] = c THEN RStrip(SubSeq(s, 1, Len(s) - 1), c) ELSE s

\* The characters of an algorithm name.
AlgorithmChars(alg) ==
    CASE alg = "SHA1" -> <<"S", "H", "A", "1">>
      [] alg = "SHA256" -> <<"S", "H", "A", "2", "5", "6">>
      [] alg = "SHA512" -> <<"S", "H", "A", "5", "1", "2">>
      [] alg = "MD5" -> <<"M", "D", "5">>
      [] alg = "CRC32" -> <<"C", "R", "C", "3", "2">>

\* The literal parts of the f-string of lines 50-55.
LitScheme ==
    <<"o", "t", "p", "a", "u", "t", "h", ":", "/", "/", "t", "o", "t", "p", "/">>
LitSecret == <<"?", "s", "e", "c", "r", "e", "t", "=">>
LitIssuer == <<"&", "i", "s", "s", "u", "e", "r", "=">>
LitAlgorithm == <<"&", "a", "l", "g", "o", "r", "i", "t", "h", "m", "=">>
LitDigits == <<"&", "d", "i", "g", "i", "t", "s", "=">>
LitPeriod == <<"&", "p", "e", "r", "i", "o", "d", "=">>

\* Lines 48-56.
TotpUrl(sec, iss, usr, alg, dig, per) ==
    LET b32_encoded_secret == RStrip(B32Encode(Encode(sec)), "=")
    IN  LitScheme \o iss \o <<":">> \o usr
            \o LitSecret \o b32_encoded_secret
            \o LitIssuer \o iss
            \o LitAlgorithm \o AlgorithmChars(alg)
            \o LitDigits \o IntToStr(dig)
            \o LitPeriod \o IntToStr(per)

UrlSecrets ==
    { <<>>, <<"a">>, <<"a", "b">>, <<"a", "b", "c">>, <<"a", "b", "c", "d">>,
      <<"a", "b", "c", "d", "e">>, <<"a", "b", "c", "d", "e", "f">>,
      <<"U+00E9", "!">> }
UrlIssuers ==
    { <<>>, <<"A">>, <<"A", " ", "B">>, <<"A", "&", "B">>, <<"A", ":", "B">>,
      <<"A", "?", "B">>, <<"A", "%", "B">>, <<"%", "4", "1">> }
UrlUsers ==
    { <<>>, <<"u">>, <<"u", " ", "v">>, <<"u", "&", "v">>, <<"u", ":", "v">>,
      <<"u", "?", "v">>, <<"u", "%">> }
UrlDigitsInputs == {DefaultDigits, 8}
UrlPeriodInputs == {DefaultPeriod, 60}

\* A call of generate_totp_url.
GenerateTotpUrl ==
    /\ url.kind = "none"
    /\ url' = Returned(TotpUrl(secret, issuer, user, algorithm, digits, period))
    /\ UNCHANGED <<now, hmacSeed, totpArgs, totpLocals, issuer, user>>

UrlInit ==
    /\ now = 0
    /\ hmacSeed = 0
    /\ secret \in UrlSecrets
    /\ digits \in UrlDigitsInputs
    /\ period \in UrlPeriodInputs
    /\ algorithm \in SupportedAlgorithms
    /\ pc = [th \in Threads |-> "idle"]
    /\ t = [th \in Threads |-> 0]
    /\ steps = [th \in Threads |-> <<>>]
    /\ hash_digest = [th \in Threads |-> <<>>]
    /\ offset = [th \in Threads |-> Unbound]
    /\ binary = [th \in Threads |-> Unbound]
    /\ ret = [th \in Threads |-> NoOutcome]
    /\ issuer \in UrlIssuers
    /\ user \in UrlUsers
    /\ url = NoOutcome

UrlNext == GenerateTotpUrl

UrlSpec == UrlInit /\ [][UrlNext]_vars

-----------------------------------------------------------------------------
(* What the claims speak of *)

DecimalChars == {DigitChar(d) : d \in 0..9}

DigitOf(c) == CHOOSE d \in 0..9 : DigitChar(d) = c

\* The number a string of decimal digits denotes.
RECURSIVE DecimalValue(_)
DecimalValue(s) ==
    IF s = <<>> THEN 0
    ELSE 10 * DecimalValue(SubSeq(s, 1, Len(s) - 1)) + DigitOf(s[Len(s)])

\* The unsigned number a big-endian byte string denotes.
RECURSIVE BigEndianValue(_)
BigEndianValue(b) ==
    IF b = <<>> THEN 0
    ELSE 256 * BigEndianValue(SubSeq(b, 1, Len(b) - 1)) + b[Len(b)]

\* n = floor(tk ticks / p seconds), stated by its two bounds.
IsFloorOf(n, tk, p) ==
    IF p > 0
    THEN n * p * TicksPerSecond <= tk /\ tk < (n + 1) * p * TicksPerSecond
    ELSE n * p * TicksPerSecond >= tk /\ tk > (n + 1) * p * TicksPerSecond

SameTimeStep(t1, t2, p) ==
    \E n \in (0 - MaxClock)..MaxClock : IsFloorOf(n, t1, p) /\ IsFloorOf(n, t2, p)

\* The 31-bit number the dynamic truncation of RFC 4226 reads off a digest.
TruncatedValue(d) ==
    LET o == d[Len(d)] % 16
    IN  (d[o + 1] % 128) * 16777216 + d[o + 2] * 65536 + d[o + 3] * 256 + d[o + 4]

\* v mod 10^d, for v below 2^31.
ModTenTo(v, d) == IF d >= 10 THEN v ELSE v - Pow10(d) * (v \div Pow10(d))

ReturnedCode(th) == pc[th] = "done" /\ ret[th].kind = "return"

-----------------------------------------------------------------------------
(* Reading a URI back (RFC 3986; the query as a list of name=value fields) *)

\* The place of the first c in s, 0 when there is none.
FirstIndex(s, c) ==
    IF \E i \in 1..Len(s) : s[i] = c
    THEN CHOOSE i \in 1..Len(s) : s[i] = c /\ \A j \in 1..(i - 1) : s[j] # c
    ELSE 0

Before(s, c) ==
    IF FirstIndex(s, c) = 0 THEN s ELSE SubSeq(s, 1, FirstIndex(s, c) - 1)

After(s, c) ==
    IF FirstIndex(s, c) = 0 THEN <<>> ELSE SubSeq(s, FirstIndex(s, c) + 1, Len(s))

RECURSIVE Split(_, _)
Split(s, c) ==
    IF FirstIndex(s, c) = 0 THEN <<s>>
    ELSE <<Before(s, c)>> \o Split(After(s, c), c)

HexChars ==
    <<"0", "1", "2", "3", "4", "5", "6", "7", "8", "9",
      "A", "B", "C", "D", "E", "F">>

IsHex(c) == \E i \in 1..16 : HexChars[i] = c

HexValue(c) == (CHOOSE i \in 1..16 : HexChars[i] = c) - 1

\* The character of a code point, among those the inputs are made of.
CharOf(code) ==
    CASE code = 32 -> " "
      [] code = 37 -> "%"
      [] code = 38 -> "&"
      [] code = 58 -> ":"
      [] code = 63 -> "?"
      [] code = 65 -> "A"
      [] code = 66 -> "B"
      [] code = 117 -> "u"
      [] code = 118 -> "v"
      [] OTHER -> "U+FFFD"

IsEscapeAt(s, i) ==
    s[i] = "%" /\ i + 2 <= Len(s) /\ IsHex(s[i + 1]) /\ IsHex(s[i + 2])

\* Percent-decoding; a "%" that starts no escape stands for itself.
RECURSIVE PercentDecode(_)
PercentDecode(s) ==
    IF s = <<>> THEN <<>>
    ELSE IF IsEscapeAt(s, 1)
    THEN <<CharOf(16 * HexValue(s[2]) + HexValue(s[3]))>>
             \o PercentDecode(SubSeq(s, 4, Len(s)))
    ELSE <<Head(s)>> \o PercentDecode(Tail(s))

\* What follows "scheme://authority/", up to the query.
UrlLabel(u) ==
    Before(Before(SubSeq(u, Len(LitScheme) + 1, Len(u)), "?"), "#")

\* The query: what follows the first "?", up to the fragment.
UrlQuery(u) == Before(After(Before(u, "#"), "?"), "#")

\* The undecoded values of the query fields called name.
QueryRawValues(u, name) ==
    LET fields == Split(UrlQuery(u), "&")
    IN  { After(fields[i], "=") :
            i \in { j \in 1..Len(fields) : Before(fields[j], "=") = name } }

QueryValues(u, name) == { PercentDecode(v) : v \in QueryRawValues(u, name) }

Base32Value(c) == (CHOOSE i \in 1..32 : Base32Alphabet[i] = c) - 1

RECURSIVE Base32Bits(_)
Base32Bits(s) ==
    IF s = <<>> THEN <<>>
    ELSE [i \in 1..5 |-> (Base32Value(Head(s)) \div ShiftLeft(1, 5 - i)) % 2]
             \o Base32Bits(Tail(s))

RECURSIVE BytesOfBits(_)
BytesOfBits(bits) ==
    IF Len(bits) < 8 THEN <<>>
    ELSE <<BitsValue(SubSeq(bits, 1, 8))>> \o BytesOfBits(SubSeq(bits, 9, Len(bits)))

IsBase32(s) == \A i \in 1..Len(s) : \E k \in 1..32 : Base32Alphabet[k] = s[i]

\* The bytes an unpadded base32 string decodes to once its padding is
\* restored.
B32Decode(s) == BytesOfBits(Base32Bits(s))

IsDecimal(s) == s # <<>> /\ \A i \in 1..Len(s) : s[i] \in DecimalChars

UnsafeChars == {":", " ", "&", "?", "%"}

\* No space, "&" or "?" in s, and no "%" but as the start of an escape.
NoRawUnsafe(s) ==
    \A i \in 1..Len(s) :
        /\ s[i] \notin {" ", "&", "?"}
        /\ s[i] = "%" => IsEscapeAt(s, i)

CountOf(s, c) == Cardinality({i \in 1..Len(s) : s[i] = c})

NameSecret == <<"s", "e", "c", "r", "e", "t">>
NameIssuer == <<"i", "s", "s", "u", "e", "r">>
NameAlgorithm == <<"a", "l", "g", "o", "r", "i", "t", "h", "m">>
NameDigits == <<"d", "i", "g", "i", "t", "s">>
NamePeriod == <<"p", "e", "r", "i", "o", "d">>

\* The URI read back gives the secret, issuer, algorithm, digits and period
\* it was made from.
RoundTrips(u) ==
    /\ \E v \in QueryValues(u, NameSecret) :
           /\ QueryValues(u, NameSecret) = {v}
           /\ IsBase32(v)
           /\ B32Decode(v) = Encode(secret)
    /\ QueryValues(u, NameIssuer) = {issuer}
    /\ QueryValues(u, NameAlgorithm) = {AlgorithmChars(algorithm)}
    /\ \E v \in QueryValues(u, NameDigits) :
           /\ QueryValues(u, NameDigits) = {v}
           /\ IsDecimal(v) /\ DecimalValue(v) = digits
    /\ \E v \in QueryValues(u, NamePeriod) :
           /\ QueryValues(u, NamePeriod) = {v}
           /\ IsDecimal(v) /\ DecimalValue(v) = period

\* C5: the URI generate_totp_url returns, read back, gives a secret that
\* base32-decodes to the bytes of the secret, and the issuer, algorithm,
\* digits and period it was called with, whatever characters issuer and
\* user are made of (neither of them, nor the secret, being empty).
C5_UriRoundTrip ==
    url.kind = "return" /\ secret # <<>> /\ issuer # <<>> /\ user # <<>>
        => RoundTrips(url.value)

\* C6: in the URI returned, issuer and user are percent-encoded: the label
\* and the issuer field hold no raw space, "&", "?" or "%", no colon but the
\* one between issuer and user, and decode to issuer ":" user and to issuer.
C6_PercentEncoded ==
    url.kind = "return" /\ secret # <<>> /\ issuer # <<>> /\ user # <<>> =>
        /\ NoRawUnsafe(UrlLabel(url.value))
        /\ CountOf(UrlLabel(url.value), ":") <= 1
        /\ PercentDecode(UrlLabel(url.value)) = issuer \o <<":">> \o user
        /\ \A v \in QueryRawValues(url.value, NameIssuer) :
               NoRawUnsafe(v) /\ CountOf(v, ":") = 0
        /\ QueryValues(url.value, NameIssuer) = {issuer}

\* C7: with an empty issuer or an empty user generate_totp_url fails with
\* InvalidParameter and returns no URI.  Stated by what it entails: the
\* call does not return.
C7_RejectsEmptyNames ==
    url.kind # "none" /\ secret # <<>> /\ (issuer = <<>> \/ user = <<>>)
        => url.kind = "raise"

\* C1: with digits in 6..10, the string generate_totp returns has exactly
\* digits characters, all of them decimal digits.
C1_CodeLength ==
    \A th \in Threads :
        ReturnedCode(th) /\ digits \in 6..10 =>
            /\ Len(ret[th].value) = digits
            /\ \A i \in 1..Len(ret[th].value) : ret[th].value[i] \in DecimalChars

\* C1 at work: a code whose leading zeros rjust supplied.
C1_Witness ==
    \E th \in Threads :
        /\ ReturnedCode(th) /\ digits \in 6..10
        /\ binary[th] > 0
        /\ ret[th].value[1] = "0"

\* C2: the arguments being the same, two calls whose clock readings fall in
\* the same time step end the same way; the code returned depends on the
\* clock through the counter alone.
C2_SameStepSameCode ==
    \A a, b \in Threads :
        /\ pc[a] = "done" /\ pc[b] = "done"
        /\ period # 0
        /\ SameTimeStep(t[a], t[b], period)
        => ret[a] = ret[b]

\* C2 at work: two calls at different clock readings of one time step, both
\* returned.
C2_Witness ==
    \E a, b \in Threads :
        /\ ReturnedCode(a) /\ ReturnedCode(b)
        /\ period > 0
        /\ t[a] # t[b]
        /\ SameTimeStep(t[a], t[b], period)

\* C3: with period <= 0 or an algorithm outside SHA1, SHA256, SHA512,
\* generate_totp fails with InvalidParameter and returns no code.  Stated
\* by what it entails whatever the exception is called, at the clock
\* readings after the epoch and with digits valid: the call does not return.
C3_RejectsPeriodAndAlgorithm ==
    \A th \in Threads :
        /\ pc[th] = "done"
        /\ t[th] > 0
        /\ digits \in 6..10
        /\ (period <= 0 \/ algorithm \notin SupportedAlgorithms)
        => ret[th].kind = "raise"

\* C4: with digits outside 6..10 generate_totp fails with InvalidParameter
\* and returns no string.  Stated by what it entails, the other arguments
\* being valid: the call does not return.
C4_RejectsDigits ==
    \A th \in Threads :
        /\ pc[th] = "done"
        /\ digits \notin 6..10
        /\ period > 0 /\ algorithm \in SupportedAlgorithms
        => ret[th].kind = "raise"

C8_CounterIsFloor ==
    \A th \in Threads :
        pc[th] # "idle" /\ period > 0 =>
            /\ ret[th].exc \notin {"ZeroDivisionError", "OverflowError"}
            /\ Len(steps[th]) = 8
            /\ \A i \in 1..Len(steps[th]) : steps[th][i] \in 0..255
            /\ IsFloorOf(BigEndianValue(steps[th]), t[th], period)

C8_LaterClockLaterCounter ==
    \A a, b \in Threads :
        pc[a] # "idle" /\ pc[b] # "idle" /\ period > 0 /\ t[a] <= t[b]
            => BigEndianValue(steps[a]) <= BigEndianValue(steps[b])

C8_NextCallLaterCounter ==
    \A th \in Threads :
        pc[th] # "idle" /\ period > 0
            => BigEndianValue(steps'[th]) >= BigEndianValue(steps[th])

\* C8: with a clock reading t >= 0 and a period p > 0, line 20 does not
\* raise, steps is the 8-byte big-endian encoding of floor(t / p), and the
\* counter never decreases from one call to a later one.
C8_Counter ==
    /\ [](C8_CounterIsFloor /\ C8_LaterClockLaterCounter)
    /\ [][C8_NextCallLaterCounter]_vars

\* C8 at work: a call at a clock reading strictly inside a time step other
\* than the first, after a call of the other thread in an earlier time step.
C8_Witness ==
    \E a, b \in Threads :
        /\ pc[a] # "idle" /\ pc[b] # "idle" /\ period > 0
        /\ t[a] % (period * TicksPerSecond) # 0
        /\ BigEndianValue(steps[a]) >= 1
        /\ BigEndianValue(steps[b]) < BigEndianValue(steps[a])

\* C9: on a digest of SHA-1, SHA-256 or SHA-512 (20, 32, 64 bytes) offset
\* lies in 0..15, the four bytes at offset exist (no IndexError), and binary
\* lies in 0..2^31 - 1.
C9_TruncationInBounds ==
    \A th \in Threads :
        /\ pc[th] \in {"L30", "done"}
        /\ hash_digest[th] # <<>>
        /\ algorithm \in SupportedAlgorithms
        => /\ Len(hash_digest[th]) =
                  (CASE algorithm = "SHA1" -> 20
                     [] algorithm = "SHA256" -> 32
                     [] algorithm = "SHA512" -> 64)
           /\ offset[th] \in 0..15
           /\ offset[th] + 4 <= Len(hash_digest[th])
           /\ ret[th].exc # "IndexError"
           /\ binary[th] \in 0..2147483647

\* C9 at work: the last window of a SHA-1 digest, every bit of it set.
C9_Witness ==
    \E th \in Threads :
        /\ pc[th] \in {"L30", "done"}
        /\ algorithm = "SHA1"
        /\ offset[th] = 15
        /\ binary[th] = 2147483647

\* C10: with digits in 6..10 the code returned is the decimal writing of
\* (the four digest bytes at offset, big-endian, top bit cleared) mod
\* 10^digits, padded on the left with "0" to digits characters: "000000"
\* when digits = 6 and that remainder is 0.
C10_CodeValue ==
    \A th \in Threads :
        ReturnedCode(th) /\ digits \in 6..10 =>
            LET code == ret[th].value
                v == TruncatedValue(hash_digest[th])
            IN  /\ Len(code) = digits
                /\ \A i \in 1..Len(code) : code[i] \in DecimalChars
                /\ DecimalValue(code) = ModTenTo(v, digits)
                /\ DecimalValue(code) >= 0
                /\ digits < 10 => DecimalValue(code) <= Pow10(digits) - 1
                /\ digits = 6 /\ ModTenTo(v, 6) = 0
                       => code = <<"0", "0", "0", "0", "0", "0">>

\* C10 at work: digits = 6 and a truncated value that is a positive multiple
\* of 10^6.
C10_Witness ==
    \E th \in Threads :
        /\ ReturnedCode(th) /\ digits = 6
        /\ binary[th] > 0
        /\ ret[th].value = <<"0", "0", "0", "0", "0", "0">>

=============================================================================
